---- MODULE Spec2Model ----
(***************************************************************************)
(* Model of app.py: a Streamlit script that classifies a brain MRI scan,   *)
(* builds a gradient saliency overlay (generate_saliency_map), and asks a  *)
(* hosted multimodal model for an explanation and for chat answers.        *)
(*                                                                         *)
(* Two specifications share the variables:                                 *)
(*   Spec    - the script: user interactions and the script runs they      *)
(*             trigger, over both tabs, with the file storage and the      *)
(*             narrative-service calls;                                    *)
(*   SalSpec - the numeric pipeline of generate_saliency_map on a pixel    *)
(*             grid, one action per stage of the function.                 *)
(***************************************************************************)
EXTENDS Integers, Sequences, FiniteSets, TLC

VARIABLES
    \* ---- the script (Spec) ----
    pc,             \* position of the script run
    run,            \* number of script runs started so far
    tab,            \* the tab whose display_tab_content is executing
    credential,     \* GOOGLE_API_KEY of the process: "valid" or "missing"
    uploaded_file,  \* per tab: the file_uploader widget's value
    selected_model, \* per tab: the radio widget's value
    user_query,     \* per tab: the text_input widget's value
    class_index,    \* per tab: argmax of the prediction of this run
    files,          \* local storage: path -> content
    displayed,      \* per tab: what this run has rendered so far
    calls,          \* per tab: generate_content calls made in this run
    opened,         \* content generate_explanation read in its last call
    saliency_map,   \* per tab: shape of the array generate_saliency_map returned
    \* ---- generate_saliency_map on pixels (SalSpec) ----
    spc,            \* stage of the function
    img_size,       \* the img_size argument
    gradients,      \* the gradient map: shape, pixel -> numerator, and
                    \* the common denominator of the values
    mask,           \* set of pixels inside the circular mask
    brain_gradients, \* the masked values, as line 93-95 leave them
    threshold,      \* the 80th percentile, numerator over 100 * den
    original_img,   \* image.img_to_array(img): shape and pixel value
    heatmap,        \* colorized map, pixel -> <<r, g, b>>
    superimposed_img \* blended overlay, pixel -> <<r, g, b>>

appVars == <<pc, run, tab, credential, uploaded_file, selected_model,
             user_query, class_index, files, displayed, calls, opened,
             saliency_map>>
salVars == <<spc, img_size, gradients, mask, brain_gradients, threshold, original_img,
             heatmap, superimposed_img>>
vars == <<appVars, salVars>>

(***************************************************************************)
(* Bounds of the model                                                     *)
(***************************************************************************)
MaxRuns == 4        \* script runs explored
MaxGrad == 2        \* raw gradient values are 0..MaxGrad
MaxDim == 24        \* img_size components are MinDim..MaxDim, or WideDim
WideDim == 48       \* one elongated dimension
MaxPixel == 1       \* test images are numbered 0..MaxPixel

(***************************************************************************)
(* Program constants                                                       *)
(***************************************************************************)
Margin == 10                    \* radius = min(center) - 10
MinDim == 2 * (Margin + 1)      \* smallest dimension with a radius of 1
Percentile == 80                \* np.percentile(..., 80)
HeatWeight == 7                 \* heatmap * 0.7, in tenths
ImgWeight == 3                  \* original_img * 0.3, in tenths
XceptionSize == 299
CnnSize == 224

output_dir == "saliency_maps"
labels == <<"Glioma", "Meningioma", "No tumor", "Pituitary">>
Models == {"Transfer Learning - Xception", "Custom CNN"}
Tabs == 1..2
NoFile == [name |-> "none", bytes |-> 0, shape |-> <<0, 0>>]
None == [tab |-> 0, file |-> [kind |-> "none"]]

Min(a, b) == IF a < b THEN a ELSE b

(***************************************************************************)
(* Shapes.  A size is <<width, height>> for cv2 and                        *)
(* <<img_height, img_width>> for keras; a shape is <<rows, cols>>.         *)
(***************************************************************************)
\* cv2.resize(src, dsize): dsize is (width, height), result has
\* dsize[1] rows and dsize[0] columns
Cv2ResizeShape(shape, dsize) == <<dsize[2], dsize[1]>>

\* image.load_img(file, target_size): target_size is (img_height, img_width)
LoadImgShapeNoResize(fileShape, target_size) == fileShape
LoadImgShape(fileShape, target_size) == <<target_size[1], target_size[2]>>

\* lines 169-174: the input size of the selected backend
ImgSizeOf(model) ==
    IF model = "Transfer Learning - Xception"
    THEN <<XceptionSize, XceptionSize>>
    ELSE <<CnnSize, CnnSize>>

\* numpy broadcasting of heatmap (rows, cols, 3) with original_img
\* (rows, cols, 3): these shapes never contain a 1, so they must be equal
Broadcastable(s1, s2) == s1 = s2

\* shape of the array generate_saliency_map returns (lines 81, 110-114),
\* or "error" when the blend cannot broadcast
OverlayShape(imgShape, size) ==
    LET g == Cv2ResizeShape(imgShape, size)      \* line 81
        h == Cv2ResizeShape(g, size)             \* line 110
    IN  IF Broadcastable(h, imgShape) THEN <<h[1], h[2], 3>> ELSE <<"error">>

(***************************************************************************)
(* Storage                                                                 *)
(***************************************************************************)
\* os.path.join(output_dir, uploaded_file.name), line 116
img_path(name) == <<output_dir, name>>
\* f'saliency_maps/{uploaded_file.name}', lines 120 and 199
saliency_map_path(name) == <<"saliency_maps", name>>

\* open(path, "wb").write(...) and cv2.imwrite: create or replace the file
WriteFile(fs, path, content) ==
    [p \in (DOMAIN fs) \cup {path} |-> IF p = path THEN content ELSE fs[p]]

RawCopy(f) == [kind |-> "raw", bytes |-> f.bytes]
Overlay(f, r, t, shape) ==
    [kind |-> "overlay", bytes |-> f.bytes, run |-> r, tab |-> t, shape |-> shape]

\* lines 116-123: the two writes of generate_saliency_map, in program order
PersistSwapped(fs, f, r, t, shape) ==
    WriteFile(WriteFile(fs, saliency_map_path(f.name), Overlay(f, r, t, shape)),
              img_path(f.name), RawCopy(f))
Persist(fs, f, r, t, shape) ==
    WriteFile(WriteFile(fs, img_path(f.name), RawCopy(f)),
              saliency_map_path(f.name), Overlay(f, r, t, shape))

(***************************************************************************)
(* The script                                                              *)
(***************************************************************************)
\* the files a user may upload: a name, the content, and the <<rows, cols>>
\* of the image the content decodes to
Names == {"a.png", "b.png"}
Contents == 1..2
DecodedShape(bytes) == IF bytes = 1 THEN <<512, 512>> ELSE <<200, 300>>
Uploads == {[name |-> n, bytes |-> b, shape |-> DecodedShape(b)] :
               n \in Names, b \in Contents}
Queries == {"", "why"}

NoCalls == [explanation |-> 0, chat |-> 0]
TotalCalls == calls[1].explanation + calls[1].chat
              + calls[2].explanation + calls[2].chat

\* one generate_content round trip (lines 45 and 65): no retry
generate_content_retry(n) == n + 2
generate_content(n) == n + 1

AppInit ==
    /\ pc = "idle"
    /\ run = 0
    /\ tab = 1
    /\ credential \in {"valid", "missing"}
    /\ uploaded_file = [t \in Tabs |-> NoFile]
    /\ selected_model = [t \in Tabs |-> "Transfer Learning - Xception"]
    /\ user_query = [t \in Tabs |-> ""]
    /\ class_index = [t \in Tabs |-> 0]
    /\ files = <<>>
    /\ displayed = [t \in Tabs |-> {}]
    /\ calls = [t \in Tabs |-> NoCalls]
    /\ opened = None
    /\ saliency_map = [t \in Tabs |-> <<>>]

\* Streamlit reruns the whole script, top to bottom, after a widget changes
Rerun ==
    /\ pc \in {"idle", "aborted"}
    /\ run < MaxRuns
    /\ run' = run + 1
    /\ tab' = 1
    /\ pc' = "tab"
    /\ displayed' = [t \in Tabs |-> {}]
    /\ calls' = [t \in Tabs |-> NoCalls]
    /\ opened' = None
    /\ saliency_map' = [t \in Tabs |-> <<>>]
    /\ class_index' = [t \in Tabs |-> 0]
    /\ UNCHANGED <<credential, files>>

\* line 164: the user uploads a file in a tab
Upload ==
    /\ \E t \in Tabs, f \in Uploads :
          /\ uploaded_file[t] # f
          /\ uploaded_file' = [uploaded_file EXCEPT ![t] = f]
    /\ Rerun
    /\ UNCHANGED <<selected_model, user_query, salVars>>

\* line 167: the user picks a backend (the radio exists once a file is there)
SelectModel ==
    /\ \E t \in Tabs, m \in Models :
          /\ uploaded_file[t] # NoFile
          /\ selected_model[t] # m
          /\ selected_model' = [selected_model EXCEPT ![t] = m]
    /\ Rerun
    /\ UNCHANGED <<uploaded_file, user_query, salVars>>

\* line 207: the user types a question (the input exists once the
\* explanation of that tab was rendered)
AskQuestion ==
    /\ \E t \in Tabs, q \in Queries :
          /\ "explanation" \in displayed[t]
          /\ user_query[t] # q
          /\ user_query' = [user_query EXCEPT ![t] = q]
    /\ Rerun
    /\ UNCHANGED <<uploaded_file, selected_model, salVars>>

\* end of display_tab_content for the current tab: lines 221-226
NextTab == IF tab = 1 THEN "tab" ELSE "idle"

\* line 166: no file in this tab, display_tab_content renders nothing more
SkipTab ==
    /\ pc = "tab"
    /\ uploaded_file[tab] = NoFile
    /\ pc' = NextTab
    /\ tab' = 2
    /\ UNCHANGED <<run, credential, uploaded_file, selected_model, user_query,
                   class_index, files, displayed, calls, opened, saliency_map,
                   salVars>>

\* lines 166-188: load the backend, predict, write the class and the
\* probabilities
Predict ==
    /\ pc = "tab"
    /\ uploaded_file[tab] # NoFile
    /\ \E ci \in 0..3 : class_index' = [class_index EXCEPT ![tab] = ci]
    /\ displayed' = [displayed EXCEPT ![tab] = @ \cup {"class", "probs"}]
    /\ pc' = "saliency"
    /\ UNCHANGED <<run, tab, credential, uploaded_file, selected_model,
                   user_query, files, calls, opened, saliency_map, salVars>>

\* lines 190-196: generate_saliency_map (lines 68-125, with both writes)
\* and the two st.image calls
GenerateSaliencyMap ==
    /\ pc = "saliency"
    /\ LET f == uploaded_file[tab]
           size == ImgSizeOf(selected_model[tab])
           imgShape == LoadImgShape(f.shape, size)        \* line 177
           shape == OverlayShape(imgShape, size)
       IN  /\ saliency_map' = [saliency_map EXCEPT ![tab] = shape]
           /\ files' = Persist(files, f, run, tab, shape)
    /\ displayed' = [displayed EXCEPT ![tab] = @ \cup {"uploaded", "saliency"}]
    /\ pc' = "explain"
    /\ UNCHANGED <<run, tab, credential, uploaded_file, selected_model,
                   user_query, class_index, calls, opened, salVars>>

\* lines 198-202 and 43-46: open the file at saliency_maps/<name>, one
\* generate_content call; an exception of the call ends the script run
GenerateExplanation ==
    /\ pc = "explain"
    /\ opened' = [tab |-> tab,
                  file |-> files[saliency_map_path(uploaded_file[tab].name)]]
    /\ calls' = [calls EXCEPT ![tab].explanation = generate_content(@)]
    /\ IF credential = "valid"
       THEN /\ displayed' = [displayed EXCEPT ![tab] = @ \cup {"explanation"}]
            /\ pc' = "chat"
       ELSE /\ displayed' = [displayed EXCEPT ![tab] = @ \cup {"exception"}]
            /\ pc' = "aborted"
    /\ UNCHANGED <<run, tab, credential, uploaded_file, selected_model,
                   user_query, class_index, files, saliency_map, salVars>>

\* lines 204-218: the chat call, only for a non-empty question
ChatResponse ==
    /\ pc = "chat"
    /\ user_query[tab] # ""
    /\ calls' = [calls EXCEPT ![tab].chat = generate_content(@)]
    /\ displayed' = [displayed EXCEPT ![tab] = @ \cup {"response"}]
    /\ pc' = NextTab
    /\ tab' = 2
    /\ UNCHANGED <<run, credential, uploaded_file, selected_model, user_query,
                   class_index, files, opened, saliency_map, salVars>>

\* line 209: empty question, no call
NoQuestion ==
    /\ pc = "chat"
    /\ user_query[tab] = ""
    /\ pc' = NextTab
    /\ tab' = 2
    /\ UNCHANGED <<run, credential, uploaded_file, selected_model, user_query,
                   class_index, files, displayed, calls, opened, saliency_map,
                   salVars>>

(***************************************************************************)
(* generate_saliency_map on pixels.  A pixel is <<x, y>>, x the column and *)
(* y the row; a map value is numerator / den.                              *)
(***************************************************************************)
Grid(shape) == (0..(shape[2] - 1)) \X (0..(shape[1] - 1))

\* an array of the given shape, indexed [row][column] as in numpy
Array(shape, F(_)) ==
    [y \in 0..(shape[1] - 1) |-> [x \in 0..(shape[2] - 1) |-> F(<<x, y>>)]]
Get(a, p) == a.val[p[2]][p[1]]
\* F applied to every element
Each(v, F(_)) == [y \in DOMAIN v |-> [x \in DOMAIN v[y] |-> F(v[y][x])]]
\* F applied to the value of v, v computed a single time
With(v, F(_)) == CHOOSE r \in {F(x) : x \in {v}} : TRUE

\* the img_size arguments explored, <<width, height>>
Dims == (MinDim..MaxDim) \cup {WideDim}
Sizes == {s \in Dims \X Dims : s[1] # WideDim \/ s[2] # WideDim}
SquareSizes == {<<d, d>> : d \in MinDim..MaxDim}

\* 8-bit values the pixels of the test images take
PixelSamples == <<0, 255, 128, 37>>
TestImage(shape, o) ==
    [shape |-> shape,
     val |-> Array(shape, LAMBDA p :
                [c \in 1..3 |->
                   PixelSamples[((p[1] + p[2] + c + o) % Len(PixelSamples)) + 1]])]


\* cv2.resize(gradients, img_size), INTER_LINEAR (line 81): a copy when the
\* size does not change, else bilinear interpolation with pixel centres
\* aligned and the border replicated
Cv2Resize(g, dsize) ==
    LET sr == g.shape[1]
        sc == g.shape[2]
        dr == dsize[2]
        dc == dsize[1]
        \* source index and fraction (in units of 1/(2*dn)) for destination i
        Pos(i, sn, dn) ==
            LET a == (2 * i + 1) * sn - dn
                s == a \div (2 * dn)
            IN  IF s < 0 THEN <<0, 0>>
                ELSE IF s >= sn - 1 THEN <<sn - 1, 0>>
                ELSE <<s, a - s * 2 * dn>>
        At(x, y) == Get(g, <<Min(x, sc - 1), Min(y, sr - 1)>>)
        \* q = <<sx, fx, sy, fy>>
        Mix(q) ==
            (2 * dc - q[2]) * (2 * dr - q[4]) * At(q[1], q[3])
            + q[2] * (2 * dr - q[4]) * At(q[1] + 1, q[3])
            + (2 * dc - q[2]) * q[4] * At(q[1], q[3] + 1)
            + q[2] * q[4] * At(q[1] + 1, q[3] + 1)
        Lerp(p) == With(Pos(p[1], sc, dc) \o Pos(p[2], sr, dr), Mix)
    IN  IF <<dr, dc>> = g.shape
        THEN g
        ELSE [shape |-> <<dr, dc>>, den |-> g.den * 4 * dc * dr,
              val |-> Array(<<dr, dc>>, Lerp)]

\* lines 84-87
center(shape) == <<shape[1] \div 2, shape[2] \div 2>>
radius(shape) == Min(center(shape)[1], center(shape)[2]) - Margin
InMask(shape, p) ==
    (p[1] - center(shape)[1]) * (p[1] - center(shape)[1])
    + (p[2] - center(shape)[2]) * (p[2] - center(shape)[2])
       <= radius(shape) * radius(shape)
CircularMask(shape) == {p \in Grid(shape) : InMask(shape, p)}

\* lines 69-78: |d score / d input|, channel maximum, at the resolution of
\* img_array; any non-negative map can come out of the classifier.  The
\* maps explored repeat a tile of values, one value for each pixel of the
\* smallest mask: map <<x, y>> takes tile[(x + 2 * y) % TilePeriod], which
\* gives the pixels of that mask independent values.
TilePeriod == Cardinality(CircularMask(<<MinDim, MinDim>>))
TileIndices == 0..(TilePeriod - 1)
Tiles == [TileIndices -> 0..MaxGrad]
StepTiles == [TileIndices -> {0, MaxGrad}]
FlatTiles == {[i \in TileIndices |-> c] : c \in 0..MaxGrad}
\* every tile on the smallest size, the two-valued and the constant tiles
\* on the other square sizes, the constant tiles on the sizes that are not
\* square
TilesFor(size) ==
    IF size = <<MinDim, MinDim>> THEN Tiles
    ELSE IF size \in SquareSizes THEN StepTiles \cup FlatTiles
    ELSE FlatTiles
RawGradients(shape, tile) ==
    [shape |-> shape, den |-> 1,
     val |-> Array(shape, LAMBDA p : tile[(p[1] + 2 * p[2]) % TilePeriod])]

\* line 90: gradients * mask
ApplyMask(g, m) ==
    [g EXCEPT !.val = Array(g.shape, LAMBDA p : IF p \in m THEN Get(g, p) ELSE 0)]

\* line 93: gradients[mask]
Select(g, m) == [den |-> g.den, val |-> [p \in m |-> Get(g, p)]]

\* brain_gradients.max() and .min(), line 94
MaxOf(b) == CHOOSE v \in {b.val[p] : p \in DOMAIN b.val} :
                \A q \in DOMAIN b.val : b.val[q] <= v
MinOf(b) == CHOOSE v \in {b.val[p] : p \in DOMAIN b.val} :
                \A q \in DOMAIN b.val : b.val[q] >= v
Flat(b) == \A p, q \in DOMAIN b.val : b.val[p] = b.val[q]

\* lines 94-95: min-max normalization of the masked values when they are
\* not all equal, else they stay as they are
MinMax(b, lo, hi) ==
    [den |-> hi - lo, val |-> [p \in DOMAIN b.val |-> b.val[p] - lo]]
NormalizeNoShift(b) ==
    IF MaxOf(b) > MinOf(b)
    THEN [den |-> MaxOf(b) - MinOf(b), val |-> b.val]
    ELSE b
NormalizeNoGuard(b) ==
    With(<<MinOf(b), MaxOf(b)>>, LAMBDA r : MinMax(b, r[1], r[2]))
NormalizeBrain(b) ==
    IF MaxOf(b) > MinOf(b)
    THEN With(<<MinOf(b), MaxOf(b)>>, LAMBDA r : MinMax(b, r[1], r[2]))
    ELSE b

\* line 96: gradients[mask] = brain_gradients.  The other entries are the
\* zeros line 90 left, which have the same numerator over any denominator
AssignMasked(g, m, b) ==
    [shape |-> g.shape, den |-> b.den,
     val |-> Array(g.shape, LAMBDA p : IF p \in m THEN b.val[p] ELSE Get(g, p))]

\* the k-th smallest (k from 0) of the masked values
KthSmallest(g, m, k) ==
    CHOOSE v \in {Get(g, p) : p \in m} :
        /\ Cardinality({p \in m : Get(g, p) < v}) <= k
        /\ Cardinality({p \in m : Get(g, p) <= v}) > k

\* np.percentile(gradients[mask], q), linear interpolation (line 99):
\* the value at the fractional rank q/100 * (n - 1), as a numerator over
\* 100 * den
PercentileComplement(g, m, q) ==
    LET n == Cardinality(m)
        rank == (100 - q) * (n - 1)
        k == rank \div 100
        r == rank % 100
        lo == KthSmallest(g, m, k)
        hi == IF r = 0 THEN lo ELSE KthSmallest(g, m, k + 1)
    IN  100 * lo + r * (hi - lo)
PercentileOf(g, m, q) ==
    LET n == Cardinality(m)
        rank == q * (n - 1)
        k == rank \div 100
        r == rank % 100
        lo == KthSmallest(g, m, k)
        hi == IF r = 0 THEN lo ELSE KthSmallest(g, m, k + 1)
    IN  100 * lo + r * (hi - lo)

\* line 100: gradients[gradients < threshold] = 0
BelowThreshold(v, t) == 100 * v < t
ZeroBelow(g, t) ==
    [g EXCEPT !.val = Each(g.val, LAMBDA v :
                         IF BelowThreshold(v, t) THEN 0 ELSE v)]

\* cv2.GaussianBlur(gradients, (11, 11), 0), line 103: a separable kernel
\* of 11 taps with sigma = 0.3 * ((11 - 1) * 0.5 - 1) + 0.8 = 2 and
\* BORDER_REFLECT_101.  KernelWeights[k + 1] is the weight at distance k,
\* exp(-k * k / 8) normalized, in units of 1 / KernelSum.
KernelWeights == <<16, 14, 10, 5, 2, 1>>
KernelSum == KernelWeights[1] + 2 * (KernelWeights[2] + KernelWeights[3]
                 + KernelWeights[4] + KernelWeights[5] + KernelWeights[6])
Reflect101(i, n) == IF i < 0 THEN 0 - i ELSE IF i >= n THEN 2 * (n - 1) - i ELSE i
\* the kernel applied along a line of n values, v(i) the value at i
Taps(v(_), i, n) ==
    KernelWeights[1] * v(i)
    + KernelWeights[2] * (v(Reflect101(i - 1, n)) + v(Reflect101(i + 1, n)))
    + KernelWeights[3] * (v(Reflect101(i - 2, n)) + v(Reflect101(i + 2, n)))
    + KernelWeights[4] * (v(Reflect101(i - 3, n)) + v(Reflect101(i + 3, n)))
    + KernelWeights[5] * (v(Reflect101(i - 4, n)) + v(Reflect101(i + 4, n)))
    + KernelWeights[6] * (v(Reflect101(i - 5, n)) + v(Reflect101(i + 5, n)))
\* one pass of the kernel along the rows, and one along the columns
BlurRows(a) ==
    [y \in DOMAIN a |-> [x \in DOMAIN a[y] |->
        Taps(LAMBDA i : a[y][i], x, Cardinality(DOMAIN a[y]))]]
BlurCols(a) ==
    [y \in DOMAIN a |-> [x \in DOMAIN a[y] |->
        Taps(LAMBDA i : a[i][x], y, Cardinality(DOMAIN a))]]
GaussianBlur(g) ==
    [shape |-> g.shape, den |-> g.den * KernelSum * KernelSum,
     val |-> With(With(g.val, BlurRows), BlurCols)]

\* conversion of a float to uint8: truncation; a value outside 0..255 has
\* no defined result, the build wraps modulo 256 or saturates
CastModes == {"wrap", "saturate"}
Clip(v) == IF v < 0 THEN 0 ELSE IF v > 255 THEN 255 ELSE v
Uint8(mode, v) == IF mode = "wrap" THEN v % 256 ELSE Clip(v)

\* floor(255 * num / d), without leaving 32 bits
Scale255(num, d) ==
    LET q == num \div d
        r1 == (17 * (num % d))
        r2 == (15 * (r1 % d))
    IN  255 * q + 15 * (r1 \div d) + (r2 \div d)

\* cv2.COLORMAP_JET as <<b, g, r>> (line 106)
JetBGR(i) ==
    <<Clip(Min(4 * i + 128, 636 - 4 * i)),
      Clip(Min(4 * i - 128, 892 - 4 * i)),
      Clip(Min(4 * i - 384, 1148 - 4 * i))>>
\* cv2.cvtColor(heatmap, cv2.COLOR_BGR2RGB), line 107
BGR2RGB(px) == <<px[3], px[2], px[1]>>

\* lines 106-107
ApplyColorMap(g, mode) ==
    [shape |-> g.shape,
     val |-> Each(g.val, LAMBDA v :
                BGR2RGB(JetBGR(Uint8(mode, Scale255(v, g.den)))))]

\* the heatmap of an all-zero map
ZeroHeat == BGR2RGB(JetBGR(0))

\* cv2.resize(heatmap, img_size), line 110, only as far as the shape goes:
\* the heatmap already has that size
ResizeHeatmap(h, dsize) ==
    [h EXCEPT !.shape = Cv2ResizeShape(h.shape, dsize)]

\* line 113, in tenths: heatmap * 0.7 + original_img * 0.3
BlendTenthsHeavy(h, o) == HeatWeight * h + HeatWeight * o
BlendTenths(h, o) == HeatWeight * h + ImgWeight * o
\* line 114: astype(np.uint8)
SuperimposeWith(mode, h, o) == Uint8(mode, BlendTenths(h, o) \div 10)

NoMap == [shape |-> <<0, 0>>, den |-> 1, val |-> <<>>]
NoImage == [shape |-> <<0, 0>>, val |-> <<>>]
NoBrain == [den |-> 1, val |-> <<>>]

SalInit ==
    /\ spc = "start"
    /\ img_size \in Sizes
    /\ \E tile \in TilesFor(img_size) :
          gradients = RawGradients(LoadImgShape(<<0, 0>>, img_size), tile)
    /\ original_img = NoImage
    /\ mask = {}
    /\ brain_gradients = NoBrain
    /\ threshold = 0
    /\ heatmap = NoImage
    /\ superimposed_img = NoImage

\* line 81
Resize ==
    /\ spc = "start"
    /\ gradients' = Cv2Resize(gradients, img_size)
    /\ spc' = "resized"
    /\ UNCHANGED <<brain_gradients, img_size, mask, threshold, original_img, heatmap,
                   superimposed_img, appVars>>

\* lines 83-90
MaskBrain ==
    /\ spc = "resized"
    /\ mask' = CircularMask(gradients.shape)
    /\ gradients' = ApplyMask(gradients, mask')
    /\ spc' = "masked"
    /\ UNCHANGED <<brain_gradients, img_size, threshold, original_img, heatmap,
                   superimposed_img, appVars>>

\* lines 92-96
Normalize ==
    /\ spc = "masked"
    /\ Select(gradients, mask).val # <<>>
    /\ brain_gradients' = With(Select(gradients, mask), NormalizeBrain)
    /\ gradients' = AssignMasked(gradients, mask, brain_gradients')
    /\ spc' = "normalized"
    /\ UNCHANGED <<img_size, mask, threshold, original_img, heatmap,
                   superimposed_img, appVars>>

\* line 94 on an empty selection: max() of a zero-size array raises
\* ValueError
EmptyMaskError ==
    /\ spc = "masked"
    /\ Select(gradients, mask).val = <<>>
    /\ spc' = "error"
    /\ UNCHANGED <<img_size, gradients, mask, brain_gradients, threshold, original_img, heatmap,
                   superimposed_img, appVars>>

\* lines 98-100
Threshold ==
    /\ spc = "normalized"
    /\ threshold' = PercentileOf(gradients, mask, Percentile)
    /\ gradients' = ZeroBelow(gradients, threshold')
    /\ spc' = "thresholded"
    /\ UNCHANGED <<brain_gradients, img_size, mask, original_img, heatmap, superimposed_img,
                   appVars>>

\* line 103
Blur ==
    /\ spc = "thresholded"
    /\ gradients' = GaussianBlur(gradients)
    /\ spc' = "blurred"
    /\ UNCHANGED <<brain_gradients, img_size, mask, threshold, original_img, heatmap,
                   superimposed_img, appVars>>

\* lines 106-110
Colorize ==
    /\ spc = "blurred"
    /\ \E mode \in CastModes :
          heatmap' = ResizeHeatmap(ApplyColorMap(gradients, mode), img_size)
    /\ spc' = "heatmap"
    /\ UNCHANGED <<brain_gradients, img_size, gradients, mask, threshold, original_img,
                   superimposed_img, appVars>>

\* the img argument: line 177 loaded it at target_size = img_size
ImgShape == LoadImgShape(<<0, 0>>, img_size)

\* lines 112-114, shapes that broadcast
Blend ==
    /\ spc = "heatmap"
    /\ Broadcastable(heatmap.shape, ImgShape)
    /\ \E o \in 0..MaxPixel : original_img' = TestImage(ImgShape, o)
    /\ \E mode \in CastModes :
          superimposed_img' =
              [shape |-> heatmap.shape,
               val |-> Array(heatmap.shape, LAMBDA p :
                          [c \in 1..3 |->
                             SuperimposeWith(mode, Get(heatmap, p)[c],
                                             Get(original_img', p)[c])])]
    /\ spc' = "done"
    /\ UNCHANGED <<brain_gradients, img_size, gradients, mask, threshold,
                   heatmap, appVars>>

\* line 113 on shapes that do not broadcast: ValueError
BlendShapeError ==
    /\ spc = "heatmap"
    /\ ~Broadcastable(heatmap.shape, ImgShape)
    /\ \E o \in 0..MaxPixel : original_img' = TestImage(ImgShape, o)
    /\ spc' = "error"
    /\ UNCHANGED <<brain_gradients, img_size, gradients, mask, threshold,
                   heatmap, superimposed_img, appVars>>

(***************************************************************************)
(* Specifications                                                          *)
(***************************************************************************)
SalIdle ==
    /\ spc = "idle"
    /\ img_size = <<0, 0>>
    /\ gradients = NoMap
    /\ mask = {}
    /\ brain_gradients = NoBrain
    /\ threshold = 0
    /\ original_img = NoImage
    /\ heatmap = NoImage
    /\ superimposed_img = NoImage

AppIdle ==
    /\ pc = "off"
    /\ run = 0
    /\ tab = 1
    /\ credential = "valid"
    /\ uploaded_file = [t \in Tabs |-> NoFile]
    /\ selected_model = [t \in Tabs |-> "Transfer Learning - Xception"]
    /\ user_query = [t \in Tabs |-> ""]
    /\ class_index = [t \in Tabs |-> 0]
    /\ files = <<>>
    /\ displayed = [t \in Tabs |-> {}]
    /\ calls = [t \in Tabs |-> NoCalls]
    /\ opened = None
    /\ saliency_map = [t \in Tabs |-> <<>>]

Init == AppInit /\ SalIdle
Next ==
    \/ Upload
    \/ SelectModel
    \/ AskQuestion
    \/ SkipTab
    \/ Predict
    \/ GenerateSaliencyMap
    \/ GenerateExplanation
    \/ ChatResponse
    \/ NoQuestion
Spec == Init /\ [][Next]_vars

InitSal == SalInit /\ AppIdle
NextSal ==
    \/ Resize
    \/ MaskBrain
    \/ Normalize
    \/ EmptyMaskError
    \/ Threshold
    \/ Blur
    \/ Colorize
    \/ Blend
    \/ BlendShapeError
SalSpec == InitSal /\ [][NextSal]_vars

(***************************************************************************)
(* Properties of the script (Spec)                                         *)
(***************************************************************************)
Shown(t) == {"class", "probs", "saliency"} \subseteq displayed[t]
Result(t) == labels[class_index[t] + 1]
Returned(t) == saliency_map[t] # <<>>

\* C1, as stated: the overlay returned by generate_saliency_map has the
\* height and width of the uploaded image, with three channels.
C1_OverlayHasUploadSize ==
    \A t \in Tabs :
        Returned(t) =>
            saliency_map[t] = <<uploaded_file[t].shape[1],
                                uploaded_file[t].shape[2], 3>>

\* C1, amended: the overlay returned by generate_saliency_map has the
\* height and width of the selected backend's input size (299 or 224),
\* whatever the size of the upload, with three channels.
C1_OverlayHasBackendSize ==
    \A t \in Tabs :
        Returned(t) =>
            saliency_map[t] = <<ImgSizeOf(selected_model[t])[2],
                                ImgSizeOf(selected_model[t])[1], 3>>

C1_Witness ==
    \E t \in Tabs :
        /\ uploaded_file[t].shape = <<512, 512>>
        /\ selected_model[t] = "Transfer Learning - Xception"
        /\ saliency_map[t] = <<299, 299, 3>>
        /\ class_index[t] = 0
        /\ Result(t) = "Glioma"

\* C2: once generate_saliency_map has returned for a tab, storage holds
\* both a copy of the raw uploaded bytes and the overlay of that upload.
C2_RawAndOverlayBothStored ==
    \A t \in Tabs :
        Returned(t) =>
            /\ \E p \in DOMAIN files :
                  files[p] = RawCopy(uploaded_file[t])
            /\ \E p \in DOMAIN files :
                  /\ files[p].kind = "overlay"
                  /\ files[p].bytes = uploaded_file[t].bytes

C4_ExplanationReadsOwnOverlay ==
    opened.tab # 0 =>
        /\ opened.file.kind = "overlay"
        /\ opened.file.run = run
        /\ opened.file.tab = opened.tab
        /\ opened.file.bytes = uploaded_file[opened.tab].bytes

\* both tabs hold different uploads with one name, an earlier run stored
\* an overlay under it, and the second tab has read its own
C4_Witness ==
    /\ opened.tab = 2
    /\ opened.file.kind = "overlay"
    /\ run > 1
    /\ uploaded_file[1].name = uploaded_file[2].name
    /\ uploaded_file[1].bytes # uploaded_file[2].bytes

\* C10: when a narrative call has failed, every tab that holds a file shows
\* its predicted class, its probabilities and its saliency map.
C10_ResultsShownDespiteNarrativeFailure ==
    pc = "aborted" =>
        \A t \in Tabs : uploaded_file[t] # NoFile => Shown(t)

(***************************************************************************)
(* Properties of generate_saliency_map (SalSpec)                           *)
(***************************************************************************)
MaskBuilt == spc \notin {"idle", "start", "resized"}
CentrePixel(shape) == <<shape[2] \div 2, shape[1] \div 2>>
MaskedValues == {Get(gradients, p) : p \in mask}
Kept == {p \in mask : Get(gradients, p) # 0}
AboveThreshold == {p \in mask : 100 * Get(gradients, p) > threshold}
Channels == 1..3

\* C5: for an img_size whose smaller dimension is at least 22 the circular
\* mask is non-empty and contains the centre pixel of the map.
C5_MaskHoldsCentre ==
    (MaskBuilt /\ Min(img_size[1], img_size[2]) >= MinDim) =>
        /\ mask # {}
        /\ CentrePixel(gradients.shape) \in mask

\* C6, as stated: after masking and normalization every value of the map
\* lies in [0, 1], and the map is all zero when the masked region is flat.
C6_UnitRangeAndZeroWhenFlat ==
    spc = "normalized" =>
        /\ \A p \in Grid(gradients.shape) :
              0 <= Get(gradients, p) /\ Get(gradients, p) <= gradients.den
        /\ Flat(brain_gradients) =>
              \A p \in Grid(gradients.shape) : Get(gradients, p) = 0

\* C6, amended: after masking and normalization every value of the map is
\* non-negative and zero outside the mask; when the masked region is not
\* flat every value lies in [0, 1], with 0 and 1 both taken inside the mask.
C6_UnitRangeWhenNotFlat ==
    spc = "normalized" =>
        /\ gradients.den > 0
        /\ \A p \in Grid(gradients.shape) : 0 <= Get(gradients, p)
        /\ \A p \in Grid(gradients.shape) \ mask : Get(gradients, p) = 0
        /\ ~Flat(brain_gradients) =>
              /\ \A p \in Grid(gradients.shape) : Get(gradients, p) <= gradients.den
              /\ 0 \in MaskedValues
              /\ gradients.den \in MaskedValues

\* a square map whose raw masked values had a non-zero minimum
C6_Witness ==
    /\ spc = "normalized"
    /\ img_size[1] = img_size[2]
    /\ ~Flat(brain_gradients)
    /\ gradients.den = 1
    /\ Cardinality({p \in mask : Get(gradients, p) = 1}) > 1

\* C7, as stated: after thresholding at most about a fifth of the masked
\* pixels (the fifth rounded up) keep a non-zero value.
C7_AtMostFifthKept ==
    spc = "thresholded" => 5 * Cardinality(Kept) <= Cardinality(mask) + 4

\* C7, amended: after thresholding every masked pixel that keeps a non-zero
\* value is at or above the 80th percentile, and at most a fifth of the
\* masked pixels other than one (rounded up) lie strictly above it; pixels
\* tied with the threshold keep their value too.
C7_AtMostFifthAboveThreshold ==
    spc = "thresholded" =>
        /\ \A p \in Kept : 100 * Get(gradients, p) >= threshold
        /\ \A p \in mask : Get(gradients, p) = 0 \/ Get(gradients, p) = brain_gradients.val[p]
        /\ \A p \in mask : 100 * brain_gradients.val[p] >= threshold
                              => Get(gradients, p) = brain_gradients.val[p]
        /\ 5 * Cardinality(AboveThreshold) <= Cardinality(mask) + 3

\* some masked pixel was zeroed and some pixel lies above the threshold
C7_Witness ==
    /\ spc = "thresholded"
    /\ AboveThreshold # {}
    /\ \E p \in mask : brain_gradients.val[p] # 0 /\ Get(gradients, p) = 0

\* C8: every channel of every pixel of the overlay is
\* clip(0.7 * heatmap + 0.3 * original, 0, 255), truncated: the 8-bit cast
\* never wraps.
C8_BlendNeverWraps ==
    spc = "done" =>
        \A p \in Grid(superimposed_img.shape) : \A c \in Channels :
            Get(superimposed_img, p)[c] =
                Clip((HeatWeight * Get(heatmap, p)[c]
                      + ImgWeight * Get(original_img, p)[c]) \div 10)

\* a channel where heatmap and original are both 255
C8_Witness ==
    /\ spc = "done"
    /\ \E p \in Grid(superimposed_img.shape) : \E c \in Channels :
          /\ Get(heatmap, p)[c] = 255
          /\ Get(original_img, p)[c] = 255
          /\ Get(superimposed_img, p)[c] = 255

ZeroHeatOverlay ==
    \A p \in Grid(superimposed_img.shape) : \A c \in Channels :
        Get(superimposed_img, p)[c] =
            (HeatWeight * ZeroHeat[c] + ImgWeight * Get(original_img, p)[c]) \div 10

====
